---- MODULE Spec2Model ----
(***************************************************************************)
(* A model of lootcli: main() and LOOTWorker::run() step by step, the      *)
(* game-settings resolution (LOOTWorker::getSettings), its legacy          *)
(* classifiers (IsNehrim, IsEnderal, IsEnderalSE), its masterlist-source   *)
(* migration (migrateMasterlistRepoSettings, migrateMasterlistSource) and  *)
(* the plugins array of the report (createPlugins), as found in            *)
(* src/src/lootthread.cpp and src/unnamed/part_000.                        *)
(*                                                                         *)
(* Strings are TLA+ strings; the string functions of the code (tolower,    *)
(* icontains, starts_with, the GitHub regular expression, path joins) are  *)
(* computed character by character.                                        *)
(***************************************************************************)
EXTENDS Integers, Sequences, FiniteSets, TLC

VARIABLES
    m_GameId,        \* LOOTWorker::m_GameId, the requested identity
    settingsFile,    \* state of settings.toml: "missing", "unparsable", "ok"
    games,           \* settings["games"]: [kind, elems]
    idx,             \* position of the range-for of getSettings in games
    m_GameSettings,  \* LOOTWorker::m_GameSettings, the profile
    pc,              \* position of main()/run()/getSettings
    accepted,        \* index of the entry whose settings were assigned (0: none)
    evaluated,       \* number of entries the loop body was entered for
    probe,           \* input of a classifier / migrator / report call
    answer,          \* result of the first call on probe
    answer2,         \* result of applying the migration to its own output
    arguments,       \* the command line: [game, gamePath, skipUpdateMasterlist]
    m_GameName,      \* LOOTWorker::m_GameName
    m_GamePath,      \* LOOTWorker::m_GamePath
    m_UpdateMasterlist, \* LOOTWorker::m_UpdateMasterlist
    gameHandle,      \* arguments of CreateGameHandle, once it was called
    events,          \* the calls on the collaborators and the file writes, in order
    status           \* "running", or what main returned: "0" or "1"

\* the state of main() and run() around the settings resolution
runVars == <<arguments, m_GameName, m_GamePath, m_UpdateMasterlist, gameHandle,
             events, status>>

vars == <<m_GameId, settingsFile, games, idx, m_GameSettings, pc, accepted,
          evaluated, probe, answer, answer2, runVars>>

-----------------------------------------------------------------------------
(* Bounds of the model.                                                     *)

\* longest games array drawn for a run
MaxGames == 2

\* longest list of sorted plugins a report is built for
MaxPlugins == 2

-----------------------------------------------------------------------------
(* Strings.                                                                 *)

UpperCaseLetters == "ABCDEFGHIJKLMNOPQRSTUVWXYZ"
LowerCaseLetters == "abcdefghijklmnopqrstuvwxyz"

\* std::tolower on one character
ToLowerChar(c) ==
    IF \E i \in 1..Len(UpperCaseLetters) : SubSeq(UpperCaseLetters, i, i) = c
    THEN LET i == CHOOSE i \in 1..Len(UpperCaseLetters) :
                      SubSeq(UpperCaseLetters, i, i) = c
         IN  SubSeq(LowerCaseLetters, i, i)
    ELSE c

RECURSIVE ToLower(_)
ToLower(text) ==
    IF text = "" THEN ""
    ELSE ToLowerChar(SubSeq(text, 1, 1)) \o ToLower(SubSeq(text, 2, Len(text)))

\* std::string::starts_with
StartsWith(s, prefix) ==
    /\ Len(prefix) <= Len(s)
    /\ SubSeq(s, 1, Len(prefix)) = prefix

EndsWith(s, suffix) ==
    /\ Len(suffix) <= Len(s)
    /\ SubSeq(s, Len(s) - Len(suffix) + 1, Len(s)) = suffix

Contains(s, t) ==
    \E i \in 1..(Len(s) - Len(t) + 1) : SubSeq(s, i, i + Len(t) - 1) = t

\* boost::icontains
IContains(s, t) == Contains(ToLower(s), ToLower(t))

\* position of the last '/' of s, 0 when there is none
LastSlash(s) ==
    LET at == {i \in 1..Len(s) : SubSeq(s, i, i) = "/"}
    IN  IF at = {} THEN 0 ELSE CHOOSE i \in at : \A j \in at : j <= i

\* std::filesystem::path::filename
Filename(p) == SubSeq(p, LastSlash(p) + 1, Len(p))

\* std::filesystem::path operator/ on a relative right-hand side
PathJoin(a, b) ==
    IF a = "" THEN b
    ELSE IF EndsWith(a, "/") THEN a \o b
    ELSE a \o "/" \o b

\* std::optional<std::string>
NoStr == [has |-> FALSE, v |-> ""]
Some(s) == [has |-> TRUE, v |-> s]

-----------------------------------------------------------------------------
(* TOML nodes (toml++): a table maps keys to typed values.                  *)

Str(s)   == [t |-> "string",  s |-> s,  b |-> FALSE, n |-> 0]
Bool(b)  == [t |-> "boolean", s |-> "", b |-> b,     n |-> 0]
Float(n) == [t |-> "float",   s |-> "", b |-> FALSE, n |-> n]
Integer(n) == [t |-> "integer", s |-> "", b |-> FALSE, n |-> n]

EmptyTable == [k \in {} |-> Str("")]

\* table[key].value<std::string>()
ValueString(table, key) ==
    IF key \in DOMAIN table /\ table[key].t = "string"
    THEN Some(table[key].s) ELSE NoStr

\* table[key].value<bool>()
ValueBool(table, key) ==
    IF key \in DOMAIN table /\ table[key].t = "boolean"
    THEN [has |-> TRUE, v |-> table[key].b] ELSE [has |-> FALSE, v |-> FALSE]

\* table[key].value<double>(); doubles are counted in units of 0.005
ValueDouble(table, key) ==
    IF key \in DOMAIN table /\ table[key].t = "float"
    THEN [has |-> TRUE, v |-> table[key].n] ELSE [has |-> FALSE, v |-> 0]

\* (float) of a double: floats are the even multiples of the double unit,
\* rounding is to nearest, ties to the even float
ToFloat(d) ==
    IF d % 2 = 0 THEN d
    ELSE IF ((d + 1) \div 2) % 2 = 0 THEN d + 1 ELSE d - 1

-----------------------------------------------------------------------------
(* The file system the process runs on.                                     *)

Directories ==
    {"/games/nehrim", "/games/oblivion", "/games/enderal", "/games/skyrim",
     "/repo/ml", "/repo/ml/.git", "/repo/other", "/repo/other/.git",
     "/repo/nogit"}

\* regular files and the first line of each
FileLines ==
    [f \in {"/games/nehrim/NehrimLauncher.exe",
            "/games/enderal/Enderal Launcher.exe",
            "/repo/ml/masterlist.yaml", "/repo/ml/.git/HEAD",
            "/repo/other/masterlist.yaml", "/repo/other/.git/HEAD",
            "/repo/nogit/masterlist.yaml"} |->
        CASE f = "/repo/ml/.git/HEAD"    -> "ref: refs/heads/v0.23"
          [] f = "/repo/other/.git/HEAD" -> "ref: refs/heads/my-branch"
          [] OTHER -> ""]

RegularFiles == DOMAIN FileLines

\* std::filesystem::exists
Exists(p) == p \in Directories \/ p \in RegularFiles

\* std::filesystem::is_regular_file
IsRegularFile(p) == p \in RegularFiles

-----------------------------------------------------------------------------
(* GameCatalog: loot::GameId and the per-game defaults of game_settings.h.  *)

GameIds ==
    {"tes3", "tes4", "nehrim", "tes5", "enderal", "tes5se", "enderalse",
     "tes5vr", "fo3", "fonv", "fo4", "fo4vr", "starfield"}

\* loot::GetGameType: the engine-type class of an identity
GetGameType(id) ==
    CASE id = "nehrim"    -> "tes4"
      [] id = "enderal"   -> "tes5"
      [] id = "enderalse" -> "tes5se"
      [] OTHER -> id

\* loot::ToString(GameId)
GameIdToString(id) ==
    CASE id = "tes3"      -> "Morrowind"
      [] id = "tes4"      -> "Oblivion"
      [] id = "nehrim"    -> "Nehrim"
      [] id = "tes5"      -> "Skyrim"
      [] id = "enderal"   -> "Enderal"
      [] id = "tes5se"    -> "Skyrim Special Edition"
      [] id = "enderalse" -> "Enderal Special Edition"
      [] id = "tes5vr"    -> "Skyrim VR"
      [] id = "fo3"       -> "Fallout3"
      [] id = "fonv"      -> "FalloutNV"
      [] id = "fo4"       -> "Fallout4"
      [] id = "fo4vr"     -> "Fallout4VR"
      [] id = "starfield" -> "Starfield"

\* display name
GetGameName(id) ==
    CASE id = "tes3"      -> "TES III: Morrowind"
      [] id = "tes4"      -> "TES IV: Oblivion"
      [] id = "nehrim"    -> "Nehrim - At Fate's Edge"
      [] id = "tes5"      -> "TES V: Skyrim"
      [] id = "enderal"   -> "Enderal: Forgotten Stories"
      [] id = "tes5se"    -> "TES V: Skyrim Special Edition"
      [] id = "enderalse" -> "Enderal: Forgotten Stories (Special Edition)"
      [] id = "tes5vr"    -> "TES V: Skyrim VR"
      [] id = "fo3"       -> "Fallout 3"
      [] id = "fonv"      -> "Fallout: New Vegas"
      [] id = "fo4"       -> "Fallout 4"
      [] id = "fo4vr"     -> "Fallout 4 VR"
      [] id = "starfield" -> "Starfield"

\* loot::GetMasterFilename
GetMasterFilename(id) ==
    CASE id = "tes3"      -> "Morrowind.esm"
      [] id = "tes4"      -> "Oblivion.esm"
      [] id = "nehrim"    -> "Nehrim.esm"
      [] id \in {"tes5", "enderal", "tes5se", "enderalse", "tes5vr"} -> "Skyrim.esm"
      [] id = "fo3"       -> "Fallout3.esm"
      [] id = "fonv"      -> "FalloutNV.esm"
      [] id \in {"fo4", "fo4vr"} -> "Fallout4.esm"
      [] id = "starfield" -> "Starfield.esm"

\* default minimum header version, a float, in units of 0.005
GetMinimumHeaderVersion(id) ==
    CASE id = "tes3" -> 240
      [] id \in {"tes4", "nehrim"} -> 160
      [] id \in {"tes5", "enderal", "tes5vr"} -> 188
      [] id \in {"tes5se", "enderalse"} -> 340
      [] id \in {"fo3", "fonv"} -> 188
      [] id \in {"fo4", "fo4vr"} -> 190
      [] id = "starfield" -> 192

\* loot::GetDefaultMasterlistRepositoryName
GetDefaultMasterlistRepositoryName(id) ==
    CASE id = "tes3"      -> "morrowind"
      [] id = "tes4"      -> "oblivion"
      [] id = "nehrim"    -> "oblivion"
      [] id = "tes5"      -> "skyrim"
      [] id = "enderal"   -> "enderal"
      [] id = "tes5se"    -> "skyrimse"
      [] id = "enderalse" -> "enderal"
      [] id = "tes5vr"    -> "skyrimvr"
      [] id = "fo3"       -> "fallout3"
      [] id = "fonv"      -> "falloutnv"
      [] id = "fo4"       -> "fallout4"
      [] id = "fo4vr"     -> "fallout4vr"
      [] id = "starfield" -> "starfield"

\* loot::DEFAULT_MASTERLIST_BRANCH
DEFAULT_MASTERLIST_BRANCH == "v0.23"

\* loot::GetDefaultMasterlistUrl(repositoryName)
GetDefaultMasterlistUrl(repo) ==
    "https://raw.githubusercontent.com/loot/" \o repo \o "/" \o
    DEFAULT_MASTERLIST_BRANCH \o "/masterlist.yaml"

\* the per-user local application data directory (getLocalAppDataPath)
LocalAppDataPath == "/home/user/.local/share"

\* loot::GameSettings(GameId, lootFolder): the catalog defaults of an identity
GameSettings(id, folder) ==
    [id                   |-> id,
     type                 |-> GetGameType(id),
     name                 |-> GetGameName(id),
     master               |-> GetMasterFilename(id),
     minimumHeaderVersion |-> GetMinimumHeaderVersion(id),
     masterlistSource     |->
         GetDefaultMasterlistUrl(GetDefaultMasterlistRepositoryName(id)),
     folderName           |-> folder,
     gamePath             |-> "",
     gameLocalPath        |-> ""]

\* GameSettings() = default: the member initialisers of the class
DefaultGameSettings ==
    [id                   |-> "tes4",
     type                 |-> "tes4",
     name                 |-> "",
     master               |-> "",
     minimumHeaderVersion |-> 0,
     masterlistSource     |-> "",
     folderName           |-> "",
     gamePath             |-> "",
     gameLocalPath        |-> ""]

\* GameSettings::SetGameLocalFolder
SetGameLocalFolder(gs, folder) ==
    [gs EXCEPT !.gameLocalPath = PathJoin(LocalAppDataPath, folder)]

-----------------------------------------------------------------------------
(* LegacyClassifier.                                                        *)

\* LOOTWorker::GetLocalFolder
GetLocalFolder(table) ==
    LET localPath   == ValueString(table, "local_path")
        localFolder == ValueString(table, "local_folder")
    IN  IF localFolder.has THEN localFolder
        ELSE IF localPath.has THEN Some(Filename(localPath.v))
        ELSE NoStr

\* the install-path check shared by IsNehrim and IsEnderal: the path is
\* present, not empty and exists on disk
HasUsableInstallPath(table) ==
    LET installPath == ValueString(table, "path")
    IN  installPath.has /\ installPath.v # "" /\ Exists(installPath.v)

\* the heuristics of IsNehrim with name and folder compared case-sensitively
NehrimHeuristics_CaseSensitive(table) ==
    LET gameName           == ValueString(table, "name")
        masterFilename     == ValueString(table, "master")
        isBaseGameInstance == ValueBool(table, "isBaseGameInstance")
        folder             == ValueString(table, "folder")
    IN  \/ (masterFilename.has /\ masterFilename.v = GetMasterFilename("nehrim"))
        \/ (gameName.has /\ Contains(gameName.v, "nehrim"))
        \/ (folder.has /\ Contains(folder.v, "nehrim"))
        \/ (isBaseGameInstance.has /\ ~isBaseGameInstance.v)

\* the heuristics of IsNehrim
NehrimHeuristics(table) ==
    LET gameName           == ValueString(table, "name")
        masterFilename     == ValueString(table, "master")
        isBaseGameInstance == ValueBool(table, "isBaseGameInstance")
        folder             == ValueString(table, "folder")
    IN  \/ (masterFilename.has /\ masterFilename.v = GetMasterFilename("nehrim"))
        \/ (gameName.has /\ IContains(gameName.v, "nehrim"))
        \/ (folder.has /\ IContains(folder.v, "nehrim"))
        \/ (isBaseGameInstance.has /\ ~isBaseGameInstance.v)

\* LOOTWorker::IsNehrim
IsNehrim(table) ==
    IF HasUsableInstallPath(table)
    THEN Exists(PathJoin(ValueString(table, "path").v, "NehrimLauncher.exe"))
    ELSE NehrimHeuristics(table)

\* the heuristics of IsEnderal(table, expectedLocalFolder)
EnderalHeuristics(table, expectedLocalFolder) ==
    LET gameName           == ValueString(table, "name")
        isBaseGameInstance == ValueBool(table, "isBaseGameInstance")
        localFolder        == GetLocalFolder(table)
        folder             == ValueString(table, "folder")
    IN  \/ (localFolder.has /\ localFolder.v = expectedLocalFolder)
        \/ (gameName.has /\ IContains(gameName.v, "enderal"))
        \/ (folder.has /\ IContains(folder.v, "enderal"))
        \/ (isBaseGameInstance.has /\ ~isBaseGameInstance.v)

\* a classifier that still consults the heuristics when the marker is absent
IsEnderalWith_MarkerOrHeuristics(table, expectedLocalFolder) ==
    \/ (HasUsableInstallPath(table) /\
        Exists(PathJoin(ValueString(table, "path").v, "Enderal Launcher.exe")))
    \/ EnderalHeuristics(table, expectedLocalFolder)

\* LOOTWorker::IsEnderal(table, expectedLocalFolder)
IsEnderalWith(table, expectedLocalFolder) ==
    IF HasUsableInstallPath(table)
    THEN Exists(PathJoin(ValueString(table, "path").v, "Enderal Launcher.exe"))
    ELSE EnderalHeuristics(table, expectedLocalFolder)

\* LOOTWorker::IsEnderal(table)
IsEnderal(table) == IsEnderalWith(table, "enderal")

\* LOOTWorker::IsEnderalSE(table)
IsEnderalSE(table) == IsEnderalWith(table, "Enderal Special Edition")

-----------------------------------------------------------------------------
(* SourceMigrator.                                                          *)

oldDefaultBranches ==
    {"master", "v0.7", "v0.8", "v0.10", "v0.13", "v0.14", "v0.15", "v0.17",
     "v0.18"}

\* a branch update that leaves "master" alone
MigrateBranch_KeepsMaster(branch) ==
    IF branch \in oldDefaultBranches \ {"master"}
    THEN DEFAULT_MASTERLIST_BRANCH ELSE branch

\* migrateMasterlistRepoSettings, the branch update
MigrateBranch(branch) ==
    IF branch \in oldDefaultBranches THEN DEFAULT_MASTERLIST_BRANCH ELSE branch

\* the redirections applied whatever the identity
MigrateRepoUrl_AnyIdentity(GameId, url) ==
    IF url = "https://github.com/loot/skyrimse.git"
    THEN "https://github.com/loot/skyrimvr.git"
    ELSE IF url = "https://github.com/loot/fallout4.git"
    THEN "https://github.com/loot/fallout4vr.git" ELSE url

\* migrateMasterlistRepoSettings, the two VR repository redirections
MigrateRepoUrl(GameId, url) ==
    LET u1 == IF GameId = "tes5vr" /\ url = "https://github.com/loot/skyrimse.git"
              THEN "https://github.com/loot/skyrimvr.git" ELSE url
    IN  IF GameId = "fo4vr" /\ u1 = "https://github.com/loot/fallout4.git"
        THEN "https://github.com/loot/fallout4vr.git" ELSE u1

\* LOOTWorker::isLocalPath
isLocalPath(location, filename) ==
    IF StartsWith(location, "http://") \/ StartsWith(location, "https://")
    THEN FALSE
    ELSE IF ~IsRegularFile(PathJoin(location, filename)) THEN FALSE
    ELSE IsRegularFile(PathJoin(PathJoin(location, ".git"), "HEAD"))

\* a test that only asks HEAD to name some branch
isBranchCheckedOut_AnyBranch(localGitRepo, branch) ==
    LET headFilePath == PathJoin(PathJoin(localGitRepo, ".git"), "HEAD")
    IN  IF headFilePath \notin RegularFiles THEN FALSE
        ELSE StartsWith(FileLines[headFilePath], "ref: refs/heads/")

\* LOOTWorker::isBranchCheckedOut
isBranchCheckedOut(localGitRepo, branch) ==
    LET headFilePath == PathJoin(PathJoin(localGitRepo, ".git"), "HEAD")
    IN  IF headFilePath \notin RegularFiles THEN FALSE
        ELSE FileLines[headFilePath] = "ref: refs/heads/" \o branch

\* the pattern without its optional (?:\.git) group
GitHubRegexMatch_KeepsGitSuffix(url) ==
    LET prefix == "https://github.com/"
        noMatch == [matched |-> FALSE, owner |-> "", repo |-> ""]
    IN  IF ~(Len(url) > Len(prefix) /\
             ToLower(SubSeq(url, 1, Len(prefix))) = prefix)
        THEN noMatch
        ELSE
          LET rest   == SubSeq(url, Len(prefix) + 1, Len(url))
              slashes == {i \in 1..Len(rest) : SubSeq(rest, i, i) = "/"}
          IN  IF slashes = {} THEN noMatch
              ELSE
                LET first == CHOOSE i \in slashes : \A j \in slashes : i <= j
                    owner == SubSeq(rest, 1, first - 1)
                    tail0 == SubSeq(rest, first + 1, Len(rest))
                    tail1 == IF EndsWith(tail0, "/")
                             THEN SubSeq(tail0, 1, Len(tail0) - 1) ELSE tail0
                IN  IF owner = "" \/ tail1 = "" \/ Contains(tail1, "/")
                    THEN noMatch
                    ELSE [matched |-> TRUE, owner |-> owner, repo |-> tail1]

\* GITHUB_REPO_URL_REGEX, matched with std::regex_match:
\*   ^https://github\.com/([^/]+)/([^/]+?)(?:\.git)?/?$   (icase)
\* [matched, owner, repo]
GitHubRegexMatch(url) ==
    LET prefix == "https://github.com/"
        noMatch == [matched |-> FALSE, owner |-> "", repo |-> ""]
    IN  IF ~(Len(url) > Len(prefix) /\
             ToLower(SubSeq(url, 1, Len(prefix))) = prefix)
        THEN noMatch
        ELSE
          LET rest   == SubSeq(url, Len(prefix) + 1, Len(url))
              slashes == {i \in 1..Len(rest) : SubSeq(rest, i, i) = "/"}
          IN  IF slashes = {} THEN noMatch
              ELSE
                LET first == CHOOSE i \in slashes : \A j \in slashes : i <= j
                    owner == SubSeq(rest, 1, first - 1)
                    tail0 == SubSeq(rest, first + 1, Len(rest))
                    \* the optional trailing slash of /?$
                    tail1 == IF EndsWith(tail0, "/")
                             THEN SubSeq(tail0, 1, Len(tail0) - 1) ELSE tail0
                    \* the lazy group takes the shortest repository name
                    \* that leaves "" or ".git" before the end
                    repo  == IF Len(tail1) > 4 /\
                                ToLower(SubSeq(tail1, Len(tail1) - 3, Len(tail1))) = ".git"
                             THEN SubSeq(tail1, 1, Len(tail1) - 4) ELSE tail1
                IN  IF owner = "" \/ tail1 = "" \/ Contains(tail1, "/")
                    THEN noMatch
                    ELSE [matched |-> TRUE, owner |-> owner, repo |-> repo]

\* migrateMasterlistRepoSettings without its branch update
migrateMasterlistRepoSettings_KeepsBranch(GameId, url0, branch0) ==
    LET url == MigrateRepoUrl(GameId, url0)
        m   == GitHubRegexMatch(url)
    IN  IF isLocalPath(url, "masterlist.yaml")
        THEN [has |-> TRUE, v |-> PathJoin(url, "masterlist.yaml"),
              warning |-> IF isBranchCheckedOut(url, branch0)
                          THEN "none" ELSE "branch"]
        ELSE IF ~m.matched
        THEN [has |-> FALSE, v |-> "", warning |-> "github"]
        ELSE [has |-> TRUE,
              v |-> "https://raw.githubusercontent.com/" \o m.owner \o "/" \o
                    m.repo \o "/" \o branch0 \o "/masterlist.yaml",
              warning |-> "none"]

\* LOOTWorker::migrateMasterlistRepoSettings: std::optional<std::string>,
\* with the warning it logs ("none", "branch" or "github")
migrateMasterlistRepoSettings(GameId, url0, branch0) ==
    LET branch == MigrateBranch(branch0)
        url    == MigrateRepoUrl(GameId, url0)
        m      == GitHubRegexMatch(url)
    IN  IF isLocalPath(url, "masterlist.yaml")
        THEN [has |-> TRUE, v |-> PathJoin(url, "masterlist.yaml"),
              warning |-> IF isBranchCheckedOut(url, branch)
                          THEN "none" ELSE "branch"]
        ELSE IF ~m.matched
        THEN [has |-> FALSE, v |-> "", warning |-> "github"]
        ELSE [has |-> TRUE,
              v |-> "https://raw.githubusercontent.com/" \o m.owner \o "/" \o
                    m.repo \o "/" \o branch \o "/masterlist.yaml",
              warning |-> "none"]

officialMasterlistRepos ==
    {"morrowind", "oblivion", "skyrim", "skyrimse", "skyrimvr", "fallout3",
     "falloutnv", "fallout4", "fallout4vr", "enderal"}

\* a table match that ignores letter case
migrateMasterlistSource_IgnoresCase(source) ==
    LET hits == {repo \in officialMasterlistRepos :
                   \E branch \in oldDefaultBranches :
                     ToLower(source) =
                       "https://raw.githubusercontent.com/loot/" \o repo
                       \o "/" \o ToLower(branch) \o "/masterlist.yaml"}
    IN  IF hits = {} THEN source
        ELSE GetDefaultMasterlistUrl(CHOOSE repo \in hits : TRUE)

\* LOOTWorker::migrateMasterlistSource
migrateMasterlistSource(source) ==
    LET hits == {repo \in officialMasterlistRepos :
                   \E branch \in oldDefaultBranches :
                     source = "https://raw.githubusercontent.com/loot/" \o repo
                              \o "/" \o branch \o "/masterlist.yaml"}
    IN  IF hits = {} THEN source
        ELSE GetDefaultMasterlistUrl(CHOOSE repo \in hits : TRUE)

-----------------------------------------------------------------------------
(* SettingsResolver: the body of the range-for of LOOTWorker::getSettings.  *)

\* what a read through a disengaged std::optional<std::string> may yield
\* when it yields a string at all
UninitStrings == {"", "https://github.com/a/b"}

\* the gameId of an entry (the if-else chain on gameType); ok = FALSE where
\* the code throws
EntryGameId(table) ==
    LET id == ValueString(table, "gameId")
        gameType == id.v
    IN  IF ~id.has THEN [ok |-> FALSE, id |-> ""]
        ELSE IF gameType = "Morrowind" THEN [ok |-> TRUE, id |-> "tes3"]
        ELSE IF gameType = "Oblivion"
             THEN [ok |-> TRUE, id |-> IF IsNehrim(table) THEN "nehrim" ELSE "tes4"]
        ELSE IF gameType = "Skyrim"
             THEN [ok |-> TRUE, id |-> IF IsEnderal(table) THEN "enderal" ELSE "tes5"]
        ELSE IF gameType = "SkyrimSE" \/ gameType = "Skyrim Special Edition"
             THEN [ok |-> TRUE,
                   id |-> IF IsEnderalSE(table) THEN "enderalse" ELSE "tes5se"]
        ELSE IF gameType = "Skyrim VR" THEN [ok |-> TRUE, id |-> "tes5vr"]
        ELSE IF gameType = "Fallout3" THEN [ok |-> TRUE, id |-> "fo3"]
        ELSE IF gameType = "FalloutNV" THEN [ok |-> TRUE, id |-> "fonv"]
        ELSE IF gameType = "Fallout4" THEN [ok |-> TRUE, id |-> "fo4"]
        ELSE IF gameType = "Fallout4VR" THEN [ok |-> TRUE, id |-> "fo4vr"]
        ELSE [ok |-> FALSE, id |-> ""]

\* the folder handed to the GameSettings constructor
EntryFolder(table) ==
    LET folder == ValueString(table, "folder")
        type   == ValueString(table, "type")
    IN  IF type.has /\ type.v = "SkyrimSE" /\ folder.v = type.v
        THEN "Skyrim Special Edition" ELSE folder.v

\* a candidate built with an empty folder where the folder key is missing
Candidate_FolderOptional(table) ==
    LET gid == EntryGameId(table)
        folder == ValueString(table, "folder")
    IN  IF ~gid.ok THEN [ok |-> FALSE, settings |-> GameSettings("tes5", "")]
        ELSE [ok |-> TRUE,
              settings |-> GameSettings(gid.id, IF folder.has
                                                THEN EntryFolder(table) ELSE "")]

\* GameSettings newSettings(gameId, folder.value()), or the throw before it
Candidate(table) ==
    LET gid == EntryGameId(table)
    IN  IF ~gid.ok THEN [ok |-> FALSE, settings |-> GameSettings("tes5", "")]
        ELSE IF ~ValueString(table, "folder").has
        THEN [ok |-> FALSE, settings |-> GameSettings("tes5", "")]
        ELSE [ok |-> TRUE, settings |-> GameSettings(gid.id, EntryFolder(table))]

\* a comparison that takes the Skyrim editions for one class
TypeMatches_SkyrimFamily(newSettings, current) ==
    \/ newSettings.type = current.type
    \/ {newSettings.type, current.type} \subseteq {"tes5", "tes5se", "tes5vr"}

\* a comparison that lets every candidate through
TypeMatches_Always(newSettings, current) == TRUE

\* if (newSettings.Type() == m_GameSettings.Type())
TypeMatches(newSettings, current) == newSettings.type = current.type

\* the name, master and minimumHeaderVersion overrides
ApplyBasicOverrides(newSettings, table) ==
    LET name   == ValueString(table, "name")
        master == ValueString(table, "master")
        minimumHeaderVersion == ValueDouble(table, "minimumHeaderVersion")
        s1 == IF name.has THEN [newSettings EXCEPT !.name = name.v]
              ELSE newSettings
        s2 == IF master.has THEN [s1 EXCEPT !.master = master.v] ELSE s1
    IN  IF minimumHeaderVersion.has
        THEN [s2 EXCEPT !.minimumHeaderVersion = ToFloat(minimumHeaderVersion.v)]
        ELSE s2

\* the masterlist source block of getSettings with both optionals of the
\* branch taken engaged: masterlistSource through migrateMasterlistSource,
\* else repo and branch through migrateMasterlistRepoSettings.
\* has = FALSE: SetMasterlistSource is not called.
ResolveSource(GameId, source, url, branch) ==
    IF source.has THEN Some(migrateMasterlistSource(source.v))
    ELSE LET migratedSource == migrateMasterlistRepoSettings(GameId, url.v, branch.v)
         IN  [has |-> migratedSource.has, v |-> migratedSource.v]

\* the masterlist source block. The else branch reads *url and *branch
\* without testing them: with "repo" or "branch" missing that is a read
\* through a disengaged optional, which may yield any string, throw from
\* the copy (caught by catch (...)) or end the process.
\* The set of [kind, settings], kind in "ok", "throw", "crash".
ApplySource(newSettings, table) ==
    LET source == ValueString(table, "masterlistSource")
        url    == ValueString(table, "repo")
        branch == ValueString(table, "branch")
        urls     == IF url.has THEN {url.v} ELSE UninitStrings
        branches == IF branch.has THEN {branch.v} ELSE UninitStrings
        set(r) == IF r.has THEN [newSettings EXCEPT !.masterlistSource = r.v]
                  ELSE newSettings
    IN  IF source.has
        THEN {[kind |-> "ok",
               settings |-> set(ResolveSource(newSettings.id, source, url, branch))]}
        ELSE {[kind |-> "ok",
               settings |-> set(ResolveSource(newSettings.id, source,
                                              Some(u), Some(b)))]
                 : u \in urls, b \in branches}
             \cup
             (IF url.has /\ branch.has THEN {}
              ELSE {[kind |-> "throw", settings |-> newSettings],
                    [kind |-> "crash", settings |-> newSettings]})

\* the path, local_path and local_folder overrides; ok = FALSE where the
\* code throws because both local_path and local_folder are set
ApplyPaths(newSettings, table) ==
    LET path        == ValueString(table, "path")
        localPath   == ValueString(table, "local_path")
        localFolder == ValueString(table, "local_folder")
        s1 == IF path.has THEN [newSettings EXCEPT !.gamePath = path.v]
              ELSE newSettings
    IN  IF localPath.has /\ localFolder.has
        THEN [ok |-> FALSE, settings |-> s1]
        ELSE IF localPath.has
        THEN [ok |-> TRUE, settings |-> [s1 EXCEPT !.gameLocalPath = localPath.v]]
        ELSE IF localFolder.has
        THEN [ok |-> TRUE, settings |-> SetGameLocalFolder(s1, localFolder.v)]
        ELSE [ok |-> TRUE, settings |-> s1]

\* One pass of the loop body over a table, with m_GameSettings = current:
\* the set of [kind, settings] it can end with.
\*   "accept":   m_GameSettings = newSettings; break
\*   "mismatch": the type differs, next entry
\*   "skip":     an exception reached catch (...), next entry
\*   "crash":    the process ended inside the body
EntryOutcomes(table, current) ==
    LET cand == Candidate(table)
    IN  IF ~cand.ok THEN {[kind |-> "skip", settings |-> current]}
        ELSE IF ~TypeMatches(cand.settings, current)
        THEN {[kind |-> "mismatch", settings |-> current]}
        ELSE
          {  IF o.kind = "crash" THEN [kind |-> "crash", settings |-> current]
             ELSE IF o.kind = "throw" THEN [kind |-> "skip", settings |-> current]
             ELSE IF ~ApplyPaths(o.settings, table).ok
                  THEN [kind |-> "skip", settings |-> current]
             ELSE [kind |-> "accept",
                   settings |-> ApplyPaths(o.settings, table).settings]
           : o \in ApplySource(ApplyBasicOverrides(cand.settings, table), table) }

\* games.is_array_of_tables()
IsArrayOfTables(g) ==
    /\ g.kind = "array"
    /\ Len(g.elems) > 0
    /\ \A i \in 1..Len(g.elems) : g.elems[i].node = "table"

-----------------------------------------------------------------------------
(* The run: run() up to the return of getSettings.                          *)

\* identities requested with --game in the runs explored
RequestedIds == {"tes4", "nehrim", "tes5vr", "tes5se"}

Table(gameId, folder) == ("gameId" :> Str(gameId)) @@ ("folder" :> Str(folder))

OblivionSource == GetDefaultMasterlistUrl("oblivion")

\* the [[games]] tables a settings.toml is drawn from
GameTables ==
    { \* entries the loop cannot resolve
      EmptyTable,
      ("type" :> Str("Oblivion")) @@ ("folder" :> Str("Oblivion")) @@
          ("name" :> Str("Typed")),
      Table("Nehrim", "Nehrim") @@ ("name" :> Str("Unknown type")),
      ("gameId" :> Str("Oblivion")) @@ ("name" :> Str("No folder")) @@
          ("masterlistSource" :> Str(OblivionSource)),
      \* Oblivion entries equal to the catalog defaults
      Table("Oblivion", "Oblivion") @@ ("name" :> Str("TES IV: Oblivion")) @@
          ("master" :> Str("Oblivion.esm")) @@
          ("minimumHeaderVersion" :> Float(160)) @@
          ("masterlistSource" :> Str(OblivionSource)) @@
          ("path" :> Str("")) @@ ("local_path" :> Str("")),
      Table("Oblivion", "Oblivion") @@
          ("repo" :> Str("https://github.com/loot/oblivion.git")) @@
          ("branch" :> Str(DEFAULT_MASTERLIST_BRANCH)),
      Table("Oblivion", "Oblivion"),
      \* Oblivion entries with overrides
      Table("Oblivion", "Oblivion") @@ ("name" :> Str("My Oblivion")) @@
          ("master" :> Str("Custom.esm")) @@
          ("minimumHeaderVersion" :> Float(161)) @@
          ("masterlistSource" :>
              Str("https://raw.githubusercontent.com/loot/oblivion/v0.17/masterlist.yaml")) @@
          ("path" :> Str("/games/oblivion")) @@
          ("local_folder" :> Str("Oblivion")),
      Table("Oblivion", "Oblivion2") @@ ("name" :> Str("Second")) @@
          ("repo" :> Str("https://github.com/me/list.git")) @@
          ("branch" :> Str("master")) @@
          ("local_path" :> Str("/home/user/obl")),
      \* Oblivion entries with local_path and local_folder both set
      Table("Oblivion", "Oblivion") @@ ("name" :> Str("Conflict")) @@
          ("master" :> Str("X.esm")) @@
          ("minimumHeaderVersion" :> Float(200)) @@
          ("masterlistSource" :> Str("https://example.com/ml.yaml")) @@
          ("path" :> Str("/games/oblivion")) @@
          ("local_path" :> Str("/a")) @@ ("local_folder" :> Str("b")),
      Table("Oblivion", "Oblivion") @@ ("name" :> Str("Conflict2")) @@
          ("local_path" :> Str("/a")) @@ ("local_folder" :> Str("b")),
      \* entries classified as Nehrim
      Table("Oblivion", "Nehrim") @@ ("name" :> Str("Nehrim - At Fate's Edge")) @@
          ("master" :> Str("Nehrim.esm")) @@
          ("masterlistSource" :> Str(OblivionSource)),
      Table("Oblivion", "Oblivion") @@ ("path" :> Str("/games/nehrim")) @@
          ("masterlistSource" :> Str("/repo/ml/masterlist.yaml")),
      \* Skyrim VR
      Table("Skyrim VR", "Skyrim VR") @@
          ("repo" :> Str("https://github.com/loot/skyrimse.git")) @@
          ("branch" :> Str("master")),
      \* Skyrim Special Edition
      Table("SkyrimSE", "SkyrimSE") @@ ("type" :> Str("SkyrimSE")) @@
          ("masterlistSource" :> Str(GetDefaultMasterlistUrl("skyrimse"))) @@
          ("name" :> Integer(3)),
      \* another game
      Table("Morrowind", "Morrowind") @@ ("name" :> Str("MW")) @@
          ("masterlistSource" :> Str(GetDefaultMasterlistUrl("morrowind")))
    }

\* the elements a games array is drawn from: tables and one string
GameNodes ==
    {[node |-> "table", fields |-> t] : t \in GameTables}
    \cup {[node |-> "string", fields |-> EmptyTable]}

\* the sequences over S of length 0..n
SeqsUpTo(S, n) == UNION {[1..k -> S] : k \in 0..n}

\* the values of settings["games"]
GamesDocs ==
    {[kind |-> "absent", elems |-> <<>>]}
    \cup {[kind |-> "array", elems |-> e] : e \in SeqsUpTo(GameNodes, MaxGames)}

\* the static gameMap of LOOTWorker::setGame
gameMap ==
    ("morrowind" :> "tes3") @@ ("oblivion" :> "tes4") @@
    ("fallout3" :> "fo3") @@ ("fallout4" :> "fo4") @@
    ("fallout4vr" :> "fo4vr") @@ ("falloutnv" :> "fonv") @@
    ("skyrim" :> "tes5") @@ ("skyrimse" :> "tes5se") @@
    ("skyrimvr" :> "tes5vr") @@ ("nehrim" :> "nehrim") @@
    ("enderal" :> "enderal") @@ ("enderalse" :> "enderalse") @@
    ("starfield" :> "starfield")

\* a lookup of the name as it was typed
setGame_CaseSensitive(gameName, id, name) ==
    IF gameName \in DOMAIN gameMap
    THEN [ok |-> TRUE, m_GameId |-> gameMap[gameName],
          m_GameName |-> GameIdToString(gameMap[gameName])]
    ELSE [ok |-> FALSE, m_GameId |-> id, m_GameName |-> name]

\* LOOTWorker::setGame on a worker with m_GameId = id, m_GameName = name:
\* the members after the call; ok = FALSE where it throws
setGame(gameName, id, name) ==
    LET key == ToLower(gameName)
    IN  IF key \in DOMAIN gameMap
        THEN [ok |-> TRUE, m_GameId |-> gameMap[key],
              m_GameName |-> GameIdToString(gameMap[key])]
        ELSE [ok |-> FALSE, m_GameId |-> id, m_GameName |-> name]

\* no call of CreateGameHandle yet
NoHandle == [called |-> FALSE, type |-> "", gamePath |-> ""]

\* the --gamePath of the runs that start after main()'s setters
CommandLinePath == "/games/cmdline"

\* the worker after main()'s setters for --game <name of id>
SettersDone(id) ==
    /\ arguments = [game |-> Some(CHOOSE n \in DOMAIN gameMap : gameMap[n] = id),
                    gamePath |-> Some(CommandLinePath),
                    skipUpdateMasterlist |-> FALSE]
    /\ m_GameName = GameIdToString(id)
    /\ m_GamePath = CommandLinePath
    /\ m_UpdateMasterlist = TRUE
    /\ gameHandle = NoHandle
    /\ events = <<>>
    /\ status = "running"

NoCall == [fn |-> "none"]
NoAnswer == [done |-> FALSE]

Init ==
    /\ m_GameId \in RequestedIds
    /\ settingsFile \in {"missing", "unparsable", "ok"}
    /\ games \in GamesDocs
    /\ (settingsFile # "ok" => games.kind = "absent")
    /\ idx = 0
    /\ m_GameSettings = DefaultGameSettings
    /\ pc = "run"
    /\ accepted = 0
    /\ evaluated = 0
    /\ probe = NoCall
    /\ answer = NoAnswer
    /\ answer2 = NoAnswer
    /\ SettersDone(m_GameId)

\* run(): m_GameSettings = GameSettings(m_GameId, ToString(m_GameId)), then
\* getSettings when settings.toml exists, up to the head of its loop
RunBegin ==
    /\ pc = "run"
    /\ m_GameSettings' = GameSettings(m_GameId, GameIdToString(m_GameId))
    /\ pc' = IF settingsFile = "missing" THEN "settingsDone"
             ELSE IF settingsFile = "unparsable" THEN "failed"
             ELSE IF IsArrayOfTables(games) THEN "scan"
             ELSE "settingsDone"
    /\ idx' = IF settingsFile = "ok" /\ IsArrayOfTables(games) THEN 1 ELSE 0
    /\ UNCHANGED <<m_GameId, settingsFile, games, accepted, evaluated, probe,
                   answer, answer2,
                   runVars>>

\* one pass of the loop body that ends in catch (...) or with a type that
\* differs: the loop goes on with the next element
GetSettingsNext ==
    /\ pc = "scan"
    /\ idx <= Len(games.elems)
    /\ \E o \in EntryOutcomes(games.elems[idx].fields, m_GameSettings) :
          o.kind \in {"skip", "mismatch"}
    /\ idx' = idx + 1
    /\ evaluated' = evaluated + 1
    /\ UNCHANGED <<m_GameId, settingsFile, games, m_GameSettings, pc, accepted,
                   probe, answer, answer2,
                   runVars>>

\* one pass of the loop body that assigns m_GameSettings and breaks
GetSettingsAccept ==
    /\ pc = "scan"
    /\ idx <= Len(games.elems)
    /\ \E o \in EntryOutcomes(games.elems[idx].fields, m_GameSettings) :
          /\ o.kind = "accept"
          /\ m_GameSettings' = o.settings
    /\ accepted' = idx
    /\ evaluated' = evaluated + 1
    /\ pc' = "settingsDone"
    /\ UNCHANGED <<m_GameId, settingsFile, games, idx, probe, answer, answer2,
                   runVars>>

\* one pass of the loop body in which the process ends
GetSettingsCrash ==
    /\ pc = "scan"
    /\ idx <= Len(games.elems)
    /\ \E o \in EntryOutcomes(games.elems[idx].fields, m_GameSettings) :
          o.kind = "crash"
    /\ evaluated' = evaluated + 1
    /\ pc' = "crashed"
    /\ UNCHANGED <<m_GameId, settingsFile, games, idx, m_GameSettings, accepted,
                   probe, answer, answer2,
                   runVars>>

\* the loop ends with no element left
GetSettingsEnd ==
    /\ pc = "scan"
    /\ idx > Len(games.elems)
    /\ pc' = "settingsDone"
    /\ UNCHANGED <<m_GameId, settingsFile, games, idx, m_GameSettings, accepted,
                   evaluated, probe, answer, answer2,
                   runVars>>

Next ==
    \/ RunBegin
    \/ GetSettingsNext
    \/ GetSettingsAccept
    \/ GetSettingsCrash
    \/ GetSettingsEnd

Spec == Init /\ [][Next]_vars

-----------------------------------------------------------------------------
(* The whole program: main(), then run() from its first line to its return, *)
(* with the calls on the sorter, the download and the file writes as steps  *)
(* that succeed or fail.                                                    *)

\* what --game is given in the runs explored
RunGameNames ==
    {"oblivion", "Oblivion", "NEHRIM", "skyrimse", "SkyrimVR", "tes4",
     "skyrim se", ""}

\* the [[games]] tables of the runs explored
RunTables ==
    {Table("Oblivion", "Oblivion") @@ ("name" :> Str("My Oblivion")) @@
         ("masterlistSource" :>
             Str("https://raw.githubusercontent.com/loot/oblivion/v0.17/masterlist.yaml")) @@
         ("path" :> Str("/games/oblivion")) @@
         ("local_folder" :> Str("Oblivion")),
     Table("Oblivion", "Oblivion"),
     Table("SkyrimSE", "SkyrimSE") @@ ("type" :> Str("SkyrimSE")) @@
         ("repo" :> Str("https://example.com/not-github")) @@
         ("branch" :> Str("master")) @@
         ("path" :> Str("/games/skyrim")),
     Table("Skyrim VR", "Skyrim VR") @@
         ("repo" :> Str("https://github.com/loot/skyrimse.git")) @@
         ("branch" :> Str("master")),
     EmptyTable}

\* the values of settings["games"] of the runs explored
RunDocs ==
    {[kind |-> "absent", elems |-> <<>>]}
    \cup {[kind |-> "array", elems |-> <<[node |-> "table", fields |-> t]>>] :
            t \in RunTables}
    \cup {[kind |-> "array",
           elems |-> <<[node |-> "table", fields |-> EmptyTable],
                       [node |-> "table", fields |-> t]>>] : t \in RunTables}

\* one call on a collaborator or one file operation
Event(call, ok, arg) == [call |-> call, ok |-> ok, arg |-> arg]

\* the state after construction of the worker (LOOTWorker::LOOTWorker);
\* m_UpdateMasterlist has no initialiser
InitRun ==
    /\ arguments \in [game : {NoStr} \cup {Some(n) : n \in RunGameNames},
                      gamePath : {NoStr, Some(CommandLinePath),
                                  Some("/games/oblivion")},
                      skipUpdateMasterlist : BOOLEAN]
    /\ m_GameId = "tes5"
    /\ m_GameName = "Skyrim"
    /\ m_GamePath = ""
    /\ m_UpdateMasterlist \in BOOLEAN
    /\ m_GameSettings = DefaultGameSettings
    /\ settingsFile \in {"missing", "unparsable", "ok"}
    /\ games \in RunDocs
    /\ (settingsFile # "ok" => games.kind = "absent")
    /\ idx = 0
    /\ pc = "main"
    /\ accepted = 0
    /\ evaluated = 0
    /\ probe = NoCall
    /\ answer = NoAnswer
    /\ answer2 = NoAnswer
    /\ gameHandle = NoHandle
    /\ events = <<>>
    /\ status = "running"

\* main(): setUpdateMasterlist(!skipUpdateMasterlist), then
\* setGame(getParameter("game")); an exception ends main with 1
MainSetGame ==
    /\ pc = "main"
    /\ m_UpdateMasterlist' = ~arguments.skipUpdateMasterlist
    /\ LET r == IF arguments.game.has
                THEN setGame(arguments.game.v, m_GameId, m_GameName)
                ELSE [ok |-> FALSE, m_GameId |-> m_GameId,
                      m_GameName |-> m_GameName]
       IN  /\ m_GameId' = r.m_GameId
           /\ m_GameName' = r.m_GameName
           /\ pc' = IF r.ok THEN "setters" ELSE "exit"
           /\ status' = IF r.ok THEN "running" ELSE "1"
    /\ UNCHANGED <<settingsFile, games, idx, m_GameSettings, accepted,
                   evaluated, probe, answer, answer2, arguments, m_GamePath,
                   gameHandle, events>>

\* main(): setGamePath(getParameter("gamePath")) and the setters after it,
\* whose arguments are present in the runs explored
MainSetters ==
    /\ pc = "setters"
    /\ m_GamePath' = IF arguments.gamePath.has THEN arguments.gamePath.v
                     ELSE m_GamePath
    /\ pc' = IF arguments.gamePath.has THEN "run" ELSE "exit"
    /\ status' = IF arguments.gamePath.has THEN "running" ELSE "1"
    /\ UNCHANGED <<m_GameId, settingsFile, games, idx, m_GameSettings, accepted,
                   evaluated, probe, answer, answer2, arguments, m_GameName,
                   m_UpdateMasterlist, gameHandle, events>>

\* where run() goes after a step that throws only what its catch clauses
\* take: on with the next step, or return 1
RunAfter_IgnoresSortFailure(next, ok) ==
    IF ok \/ next = "rewrite" THEN [pc |-> next, status |-> "running"]
    ELSE [pc |-> "exit", status |-> "1"]

RunAfter(next, ok) ==
    IF ok THEN [pc |-> next, status |-> "running"]
    ELSE [pc |-> "exit", status |-> "1"]

\* one step of run(): the call is recorded, then run() goes on or returns
RunStep(at, call, arg, next) ==
    /\ pc = at
    /\ \E ok \in BOOLEAN :
         /\ events' = Append(events, Event(call, ok, arg))
         /\ pc' = RunAfter(next, ok).pc
         /\ status' = RunAfter(next, ok).status

\* getSettings threw out of its loop (the file cannot be opened or parsed)
RunSettingsFailed ==
    /\ pc = "failed"
    /\ events' = Append(events, Event("getSettings", FALSE, ""))
    /\ pc' = RunAfter("settingsDone", FALSE).pc
    /\ status' = RunAfter("settingsDone", FALSE).status
    /\ UNCHANGED <<m_GameId, settingsFile, games, idx, m_GameSettings, accepted,
                   evaluated, probe, answer, answer2, arguments, m_GameName,
                   m_GamePath, m_UpdateMasterlist, gameHandle>>

\* a SetGamePath that leaves a path set from settings.toml alone
SetGamePath_KeepsOverride(gs, path) ==
    IF gs.gamePath = "" THEN [gs EXCEPT !.gamePath = path] ELSE gs

\* m_GameSettings.SetGamePath(m_GamePath)
SetGamePath(gs, path) == [gs EXCEPT !.gamePath = path]

\* m_GameSettings.SetGamePath(m_GamePath); CreateGameHandle(Type(),
\* GamePath(), profile)
RunCreateGameHandle ==
    /\ m_GameSettings' = SetGamePath(m_GameSettings, m_GamePath)
    /\ gameHandle' = [called   |-> TRUE,
                      type     |-> m_GameSettings'.type,
                      gamePath |-> m_GameSettings'.gamePath]
    /\ RunStep("settingsDone", "CreateGameHandle", m_GameSettings'.gamePath,
               "lootFolder")
    /\ UNCHANGED <<m_GameId, settingsFile, games, idx, accepted, evaluated,
                   probe, answer, answer2, arguments, m_GameName, m_GamePath,
                   m_UpdateMasterlist>>

\* what the remaining steps leave alone
RunFrame ==
    UNCHANGED <<m_GameId, settingsFile, games, idx, m_GameSettings, accepted,
                evaluated, probe, answer, answer2, arguments, m_GameName,
                m_GamePath, m_UpdateMasterlist, gameHandle>>

\* the LOOT folder of the game is made sure of, or FileAccessError
RunLootFolder ==
    /\ RunStep("lootFolder", "LootGameFolder", m_GameSettings.folderName, "fetch")
    /\ RunFrame

\* a download block that asks m_UpdateMasterlist
FetchCondition_HonoursFlag(update) == update

\* the condition of the download block of run()
FetchCondition(update) == TRUE

\* where run() goes after GetFile: its own try/catch returns 1
AfterGetFile_LogsOnly(ok) == [pc |-> "loadLists", status |-> "running"]

AfterGetFile(ok) ==
    IF ok THEN [pc |-> "loadLists", status |-> "running"]
    ELSE [pc |-> "exit", status |-> "1"]

\* the masterlist download
RunFetch ==
    /\ pc = "fetch"
    /\ IF FetchCondition(m_UpdateMasterlist)
       THEN \E ok \in BOOLEAN :
              /\ events' = Append(events, Event("GetFile", ok,
                                                m_GameSettings.masterlistSource))
              /\ pc' = AfterGetFile(ok).pc
              /\ status' = AfterGetFile(ok).status
       ELSE /\ pc' = "loadLists"
            /\ UNCHANGED <<events, status>>
    /\ RunFrame

RunLoadLists ==
    /\ RunStep("loadLists", "LoadLists", "", "loadOrder")
    /\ RunFrame

RunLoadOrder ==
    /\ RunStep("loadOrder", "LoadCurrentLoadOrderState", "", "sort")
    /\ RunFrame

RunSortPlugins ==
    /\ RunStep("sort", "SortPlugins", "", "rewrite")
    /\ RunFrame

\* the plugin list file is opened and rewritten, or cannot be opened
RunRewriteLoadOrder ==
    /\ RunStep("rewrite", "WritePluginList", "", "report")
    /\ RunFrame

\* std::ofstream(m_OutputPath) << createJsonReport(...): the stream is
\* opened first (the file is truncated when it can be opened), then the
\* report is built, which may throw, then written; return 0 after it
RunWriteReport ==
    /\ pc = "report"
    /\ \E opened \in BOOLEAN, built \in BOOLEAN :
         /\ events' = events \o <<Event("OpenOutput", opened, "")>> \o
                      (IF ~built THEN <<Event("createJsonReport", FALSE, "")>>
                       ELSE IF opened THEN <<Event("WriteReport", TRUE, "")>>
                       ELSE <<>>)
         /\ status' = IF built THEN "0" ELSE "1"
    /\ pc' = "exit"
    /\ RunFrame

NextRun ==
    \/ MainSetGame
    \/ MainSetters
    \/ RunBegin
    \/ GetSettingsNext
    \/ GetSettingsAccept
    \/ GetSettingsCrash
    \/ GetSettingsEnd
    \/ RunSettingsFailed
    \/ RunCreateGameHandle
    \/ RunLootFolder
    \/ RunFetch
    \/ RunLoadLists
    \/ RunLoadOrder
    \/ RunSortPlugins
    \/ RunRewriteLoadOrder
    \/ RunWriteReport

SpecRun == InitRun /\ [][NextRun]_vars

-----------------------------------------------------------------------------
(* Properties of the settings resolution.                                   *)

\* the type strings getSettings recognises, and the engine-type class each
\* declares
DeclaredClass(gameType) ==
    CASE gameType = "Morrowind" -> "tes3"
      [] gameType = "Oblivion" -> "tes4"
      [] gameType = "Skyrim" -> "tes5"
      [] gameType \in {"SkyrimSE", "Skyrim Special Edition"} -> "tes5se"
      [] gameType = "Skyrim VR" -> "tes5vr"
      [] gameType = "Fallout3" -> "fo3"
      [] gameType = "FalloutNV" -> "fonv"
      [] gameType = "Fallout4" -> "fo4"
      [] gameType = "Fallout4VR" -> "fo4vr"
      [] OTHER -> "unrecognised"

HasString(table, key) == key \in DOMAIN table /\ table[key].t = "string"

\* an entry that cannot be resolved to a type: no gameId string, an
\* unrecognised type string, or no folder
Unresolvable(table) ==
    \/ ~HasString(table, "gameId")
    \/ DeclaredClass(table["gameId"].s) = "unrecognised"
    \/ ~HasString(table, "folder")

\* a resolvable entry of the requested engine-type class
MatchesRequest(table) ==
    /\ ~Unresolvable(table)
    /\ DeclaredClass(table["gameId"].s) = GetGameType(m_GameId)

\* local_path and local_folder both set
BothLocal(table) == HasString(table, "local_path") /\ HasString(table, "local_folder")

CatalogDefault == GameSettings(m_GameId, GameIdToString(m_GameId))

ScanningEntry == pc = "scan" /\ idx <= Len(games.elems)

CurrentTable == games.elems[idx].fields

\* the entries of the games array that match the request and raise no error
Acceptable ==
    {i \in 1..Len(games.elems) :
        MatchesRequest(games.elems[i].fields) /\ ~BothLocal(games.elems[i].fields)}

FirstAcceptable == CHOOSE i \in Acceptable : \A j \in Acceptable : i <= j

\* C1: when getSettings returns, the first entry that resolves without error
\* and is of the requested engine-type class is the accepted one, and the
\* loop body was entered for no entry after it.
C1_FirstMatchAccepted ==
    (pc = "settingsDone" /\ settingsFile = "ok" /\ IsArrayOfTables(games)
     /\ Acceptable # {})
    => (accepted = FirstAcceptable /\ evaluated = FirstAcceptable)

\* C2: when getSettings returns (or was not called) and no entry was
\* accepted - the games value is no array of tables, or every entry is
\* unresolvable, of another class or sets both local fields - the profile
\* is the catalog default of the requested identity, field by field.
C2_NoMatchKeepsDefault ==
    (pc = "settingsDone" /\
       (\/ accepted = 0
        \/ settingsFile # "ok"
        \/ games.kind # "array"
        \/ games.elems = <<>>
        \/ \E i \in 1..Len(games.elems) : games.elems[i].node # "table"
        \/ \A i \in 1..Len(games.elems) :
              \/ ~MatchesRequest(games.elems[i].fields)
              \/ BothLocal(games.elems[i].fields)))
    => m_GameSettings = CatalogDefault

\* a run in which every entry was unresolvable, of another class or in
\* conflict, and the last of them was evaluated
C2_Witness ==
    /\ pc = "settingsDone"
    /\ accepted = 0
    /\ Len(games.elems) = 2
    /\ evaluated = 2
    /\ MatchesRequest(games.elems[1].fields) /\ BothLocal(games.elems[1].fields)
    /\ ~Unresolvable(games.elems[2].fields)
    /\ ~MatchesRequest(games.elems[2].fields)

\* C3: the loop body on an unresolvable entry changes neither the profile
\* nor the accepted entry and leaves the loop at the next element; and when
\* getSettings returns, the loop body was entered for every entry up to the
\* accepted one, or for all of them when none was accepted.
C3_UnresolvableSkipped ==
    /\ [][(ScanningEntry /\ Unresolvable(CurrentTable))
          => (/\ pc' = "scan"
              /\ idx' = idx + 1
              /\ evaluated' = evaluated + 1
              /\ m_GameSettings' = m_GameSettings
              /\ accepted' = accepted)]_vars
    /\ []((pc = "settingsDone" /\ settingsFile = "ok" /\ IsArrayOfTables(games))
          => evaluated = (IF accepted = 0 THEN Len(games.elems) ELSE accepted))

\* an unresolvable first entry was passed over and the entry after it
\* accepted
C3_Witness ==
    /\ pc = "settingsDone"
    /\ accepted = 2
    /\ Unresolvable(games.elems[1].fields)
    /\ m_GameSettings # CatalogDefault

\* C4: the loop body on an entry of the requested class that sets both
\* local_path and local_folder does what it does on an entry of another
\* class: the profile and the accepted entry are unchanged and the loop
\* is at the next element.
C4_ConflictTreatedAsMismatch ==
    [][(ScanningEntry /\ MatchesRequest(CurrentTable) /\ BothLocal(CurrentTable))
       => (/\ pc' = "scan"
           /\ idx' = idx + 1
           /\ m_GameSettings' = m_GameSettings
           /\ accepted' = accepted)]_vars

\* the repository URL a default entry of an identity carries in "repo"
DefaultRepoUrl(id) ==
    "https://github.com/loot/" \o GetDefaultMasterlistRepositoryName(id) \o ".git"

\* an entry for identity id whose present fields all equal the catalog
\* defaults of id
DefaultEqualEntry(table, id) ==
    LET d == GameSettings(id, GameIdToString(id))
        is(key, value) == key \notin DOMAIN table \/ table[key] = value
    IN  /\ DOMAIN table \subseteq
              {"gameId", "folder", "name", "master", "minimumHeaderVersion",
               "masterlistSource", "repo", "branch", "path", "local_path"}
        /\ HasString(table, "gameId")
        /\ DeclaredClass(table["gameId"].s) = d.type
        /\ HasString(table, "folder")
        /\ table["folder"].s = d.folderName
        /\ is("name", Str(d.name))
        /\ is("master", Str(d.master))
        /\ is("minimumHeaderVersion", Float(d.minimumHeaderVersion))
        /\ is("masterlistSource", Str(d.masterlistSource))
        /\ is("repo", Str(DefaultRepoUrl(id)))
        /\ is("branch", Str(DEFAULT_MASTERLIST_BRANCH))
        /\ is("path", Str(d.gamePath))
        /\ is("local_path", Str(d.gameLocalPath))

\* C5: resolving from a single entry whose present fields equal the catalog
\* defaults of the requested identity ends, and ends with the catalog
\* default profile.
C5_RoundTrip ==
    (/\ settingsFile = "ok"
     /\ games.kind = "array"
     /\ Len(games.elems) = 1
     /\ games.elems[1].node = "table"
     /\ DefaultEqualEntry(games.elems[1].fields, m_GameId))
    => (/\ pc # "crashed"
        /\ pc = "settingsDone" => m_GameSettings = CatalogDefault)

-----------------------------------------------------------------------------
(* The classifiers on their own: IsNehrim, IsEnderal and IsEnderalSE as     *)
(* getSettings calls them, over tables drawn field by field.                *)

\* a table with key bound to value, or without key when value is "absent"
Field(key, value) ==
    IF value = <<"absent">> THEN EmptyTable ELSE (key :> value[2])

Present(v) == <<"present", v>>
Absent == <<"absent">>

ClassifierTables(gameType) ==
    { ("gameId" :> Str(gameType)) @@ Field("folder", folder) @@
      Field("path", path) @@ Field("master", master) @@ Field("name", name) @@
      Field("isBaseGameInstance", base) @@ local :
        folder \in {Absent, Present(Str("My NeHrIm")), Present(Str("ENDERAL SE"))},
        path \in {Absent, Present(Str("")), Present(Str("/missing")),
                  Present(Str("/games/nehrim")), Present(Str("/games/oblivion")),
                  Present(Str("/games/enderal"))},
        master \in {Absent, Present(Str("Nehrim.esm")), Present(Str("nehrim.esm"))},
        name \in {Absent, Present(Str("The NEHRIM game")),
                  Present(Str("Enderal: FS")), Present(Integer(7))},
        base \in {Absent, Present(Bool(TRUE)), Present(Bool(FALSE)),
                  Present(Str("false"))},
        local \in {EmptyTable,
                   "local_folder" :> Str("enderal"),
                   "local_folder" :> Str("Enderal Special Edition"),
                   "local_path" :> Str("/home/user/enderal")} }

InitClassifier ==
    /\ probe \in [fn : {"Oblivion"}, table : ClassifierTables("Oblivion")]
              \cup [fn : {"Skyrim"}, table : ClassifierTables("Skyrim")]
              \cup [fn : {"SkyrimSE"}, table : ClassifierTables("SkyrimSE")]
    /\ answer = NoAnswer
    /\ answer2 = NoAnswer
    /\ pc = "classify"
    /\ m_GameId = "tes5"
    /\ settingsFile = "missing"
    /\ games = [kind |-> "absent", elems |-> <<>>]
    /\ idx = 0
    /\ m_GameSettings = DefaultGameSettings
    /\ accepted = 0
    /\ evaluated = 0
    /\ SettersDone("tes5")

\* getSettings resolves the gameId of the table: the classifier of its
\* declared type is called and decides the identity
Classify ==
    /\ pc = "classify"
    /\ answer' = [done  |-> TRUE,
                  value |-> CASE probe.fn = "Oblivion" -> IsNehrim(probe.table)
                              [] probe.fn = "Skyrim"   -> IsEnderal(probe.table)
                              [] probe.fn = "SkyrimSE" -> IsEnderalSE(probe.table),
                  id    |-> EntryGameId(probe.table).id]
    /\ pc' = "classified"
    /\ UNCHANGED <<m_GameId, settingsFile, games, idx, m_GameSettings, accepted,
                   evaluated, probe, answer2,
                   runVars>>

NextClassifier == Classify

SpecClassifier == InitClassifier /\ [][NextClassifier]_vars

-----------------------------------------------------------------------------
(* The source migration on its own: the masterlist source block of          *)
(* getSettings over explicit sources and over repository URL and branch,    *)
(* and the migration applied to its own output.                             *)

MigratorSources ==
    {"https://raw.githubusercontent.com/loot/skyrim/master/masterlist.yaml",
     "https://raw.githubusercontent.com/loot/enderal/v0.18/masterlist.yaml",
     "https://raw.githubusercontent.com/loot/oblivion/v0.23/masterlist.yaml",
     "https://raw.githubusercontent.com/loot/oblivion/v0.19/masterlist.yaml",
     "https://raw.githubusercontent.com/LOOT/oblivion/v0.17/masterlist.yaml",
     "https://raw.githubusercontent.com/me/oblivion/v0.17/masterlist.yaml",
     "https://raw.githubusercontent.com/loot/starfield/master/masterlist.yaml",
     "https://raw.githubusercontent.com/loot/fallout4/v0.7/masterlist.yaml/",
     "https://example.com/masterlist.yaml",
     "/repo/ml/masterlist.yaml",
     ""}

MigratorUrls ==
    {"https://github.com/loot/skyrimse.git",
     "https://github.com/loot/skyrimse",
     "https://github.com/loot/fallout4.git",
     "https://github.com/loot/fallout4vr.git",
     "https://github.com/loot/skyrim.git/",
     "HTTPS://GitHub.com/Loot/Oblivion.GIT",
     "https://github.com/me/my.list",
     "https://github.com/loot/a/b",
     "https://github.com/loot",
     "http://github.com/loot/skyrim.git",
     "https://example.com/not-github",
     "/repo/ml", "/repo/other", "/repo/nogit", ""}

MigratorBranches ==
    oldDefaultBranches \cup
    {DEFAULT_MASTERLIST_BRANCH, "v0.21", "my-branch", "Master", "v0.1", ""}

InitMigrator ==
    /\ probe \in
         {[id |-> i, source |-> Some(s), url |-> NoStr, branch |-> NoStr] :
             i \in GameIds, s \in MigratorSources}
         \cup
         {[id |-> i, source |-> NoStr, url |-> Some(u), branch |-> Some(b)] :
             i \in GameIds, u \in MigratorUrls, b \in MigratorBranches}
    /\ answer = NoAnswer
    /\ answer2 = NoAnswer
    /\ pc = "migrate"
    /\ m_GameId = "tes5"
    /\ settingsFile = "missing"
    /\ games = [kind |-> "absent", elems |-> <<>>]
    /\ idx = 0
    /\ m_GameSettings = DefaultGameSettings
    /\ accepted = 0
    /\ evaluated = 0
    /\ SettersDone("tes5")

\* the entry of settings.toml that carries the probed source settings
ProbeTable(p) ==
    IF p.source.has THEN ("masterlistSource" :> Str(p.source.v))
    ELSE ("repo" :> Str(p.url.v)) @@ ("branch" :> Str(p.branch.v))

\* the source block on an explicit masterlistSource; source is the
\* candidate's masterlist source after the block
CallMigrateSource ==
    /\ pc = "migrate"
    /\ probe.source.has
    /\ \E o \in ApplySource(GameSettings(probe.id, ""), ProbeTable(probe)) :
         answer' = [done    |-> TRUE,
                    branch  |-> "",
                    url     |-> "",
                    result  |-> ResolveSource(probe.id, probe.source, probe.url,
                                              probe.branch),
                    warning |-> "none",
                    source  |-> o.settings.masterlistSource]
    /\ pc' = "migrated"
    /\ UNCHANGED <<m_GameId, settingsFile, games, idx, m_GameSettings, accepted,
                   evaluated, probe, answer2,
                   runVars>>

\* the source block on repo and branch; branch and url are the locals of
\* migrateMasterlistRepoSettings after its updates, warning the warning it
\* logs, source the candidate's masterlist source after the block
CallMigrateRepoSettings ==
    /\ pc = "migrate"
    /\ ~probe.source.has
    /\ \E o \in ApplySource(GameSettings(probe.id, ""), ProbeTable(probe)) :
         answer' = [done    |-> TRUE,
                    branch  |-> MigrateBranch(probe.branch.v),
                    url     |-> MigrateRepoUrl(probe.id, probe.url.v),
                    result  |-> ResolveSource(probe.id, probe.source, probe.url,
                                              probe.branch),
                    warning |-> migrateMasterlistRepoSettings(
                                    probe.id, probe.url.v, probe.branch.v).warning,
                    source  |-> o.settings.masterlistSource]
    /\ pc' = "migrated"
    /\ UNCHANGED <<m_GameId, settingsFile, games, idx, m_GameSettings, accepted,
                   evaluated, probe, answer2,
                   runVars>>

\* the migration applied to what the first call produced: the source as a
\* masterlistSource, the branch and the url as branch and repo
MigrateAgain ==
    /\ pc = "migrated"
    /\ answer2' = [done   |-> TRUE,
                   branch |-> MigrateBranch(answer.branch),
                   url    |-> MigrateRepoUrl(probe.id, answer.url),
                   result |-> IF answer.result.has
                              THEN ResolveSource(probe.id, answer.result, NoStr,
                                                 NoStr)
                              ELSE NoStr]
    /\ pc' = "remigrated"
    /\ UNCHANGED <<m_GameId, settingsFile, games, idx, m_GameSettings, accepted,
                   evaluated, probe, answer,
                   runVars>>

NextMigrator == CallMigrateSource \/ CallMigrateRepoSettings \/ MigrateAgain

SpecMigrator == InitMigrator /\ [][NextMigrator]_vars

-----------------------------------------------------------------------------
(* Properties of the classifiers.                                           *)

\* the table has a non-empty install path that exists on disk
UsablePath(table) ==
    /\ HasString(table, "path")
    /\ table["path"].s # ""
    /\ table["path"].s \in Directories \cup RegularFiles

\* word occurs in s, letter case ignored
MentionsCI(s, word) ==
    \E i \in 1..(Len(s) - Len(word) + 1) :
        ToLower(SubSeq(s, i, i + Len(word) - 1)) = word

\* the four signals of the Nehrim heuristics
NehrimSignals(table) ==
    \/ (HasString(table, "master") /\ table["master"].s = "Nehrim.esm")
    \/ (HasString(table, "name") /\ MentionsCI(table["name"].s, "nehrim"))
    \/ (HasString(table, "folder") /\ MentionsCI(table["folder"].s, "nehrim"))
    \/ ("isBaseGameInstance" \in DOMAIN table
        /\ table["isBaseGameInstance"] = Bool(FALSE))

\* C6: for a table of declared type "Oblivion" with no usable install path,
\* IsNehrim is true exactly when one of the four signals holds, the entry is
\* classified Nehrim then and Oblivion otherwise; absent and ill-typed
\* fields count as signals that do not hold.
C6_NehrimHeuristics ==
    (answer.done /\ probe.fn = "Oblivion" /\ ~UsablePath(probe.table))
    => (/\ answer.value = NehrimSignals(probe.table)
        /\ answer.id = IF NehrimSignals(probe.table) THEN "nehrim" ELSE "tes4")

\* a table whose path is not on disk and whose only signal is its name in
\* another letter case was classified Nehrim
C6_Witness ==
    /\ answer.done
    /\ probe.fn = "Oblivion"
    /\ HasString(probe.table, "path") /\ probe.table["path"].s = "/missing"
    /\ DOMAIN probe.table = {"gameId", "path", "name", "isBaseGameInstance"}
    /\ probe.table["name"] = Str("The NEHRIM game")
    /\ probe.table["isBaseGameInstance"] = Str("false")
    /\ answer.id = "nehrim"

\* the marker file of the classifier of a declared type
MarkerOf(gameType) ==
    IF gameType = "Oblivion" THEN "NehrimLauncher.exe" ELSE "Enderal Launcher.exe"

\* C7: with a non-empty install path that exists on disk, the classifier of
\* each declared type answers true exactly when its marker file exists
\* under that path, whatever the other fields hold.
C7_MarkerDecides ==
    (answer.done /\ UsablePath(probe.table))
    => answer.value =
          ((probe.table["path"].s \o "/" \o MarkerOf(probe.fn))
              \in Directories \cup RegularFiles)

\* an Enderal classifier answered false under an existing path without the
\* marker, although the local folder and isBaseGameInstance = false match
C7_Witness ==
    /\ answer.done
    /\ probe.fn = "Skyrim"
    /\ UsablePath(probe.table)
    /\ probe.table["path"].s = "/games/nehrim"
    /\ "local_folder" \in DOMAIN probe.table
    /\ probe.table["local_folder"] = Str("enderal")
    /\ "isBaseGameInstance" \in DOMAIN probe.table
    /\ probe.table["isBaseGameInstance"] = Bool(FALSE)
    /\ answer.value = FALSE

-----------------------------------------------------------------------------
(* Properties of the source migration.                                      *)

SupersededBranches ==
    {"master", "v0.7", "v0.8", "v0.10", "v0.13", "v0.14", "v0.15", "v0.17",
     "v0.18"}

\* C8: the branch update maps every superseded branch name to the current
\* default branch and leaves every other name unchanged; updating the
\* updated branch again changes nothing, the default branch not being a
\* superseded one.
C8_BranchMigration ==
    (answer.done /\ probe.branch.has)
    => (/\ answer.branch = IF probe.branch.v \in SupersededBranches
                           THEN DEFAULT_MASTERLIST_BRANCH ELSE probe.branch.v
        /\ answer2.done => answer2.branch = answer.branch
        /\ DEFAULT_MASTERLIST_BRANCH \notin SupersededBranches)

\* the newest superseded branch was updated, and updated again
C8_Witness ==
    /\ answer2.done
    /\ probe.branch = Some("v0.18")
    /\ answer.branch = DEFAULT_MASTERLIST_BRANCH
    /\ answer2.branch = DEFAULT_MASTERLIST_BRANCH

\* C9: the repository URL update changes the SkyrimSE repository URL to the
\* SkyrimVR one for SkyrimVR, the Fallout4 repository URL to the Fallout4VR
\* one for Fallout4VR, and nothing else.
C9_RepoUrlMigration ==
    (answer.done /\ probe.url.has)
    => answer.url =
         IF probe.id = "tes5vr" /\ probe.url.v = "https://github.com/loot/skyrimse.git"
         THEN "https://github.com/loot/skyrimvr.git"
         ELSE IF probe.id = "fo4vr" /\ probe.url.v = "https://github.com/loot/fallout4.git"
         THEN "https://github.com/loot/fallout4vr.git"
         ELSE probe.url.v

\* the SkyrimSE repository URL was redirected for SkyrimVR
C9_Witness ==
    /\ answer.done
    /\ probe.id = "tes5vr"
    /\ probe.url = Some("https://github.com/loot/skyrimse.git")
    /\ answer.url = "https://github.com/loot/skyrimvr.git"

\* C10: where the source block produces a masterlist source, the source
\* block applied to that source produces it again.
C10_ResolveIdempotent ==
    (answer2.done /\ answer.result.has) => answer2.result = answer.result

\* a GitHub repository on a superseded branch was resolved to a raw URL on
\* the default branch, and that URL resolved to itself
C10_Witness ==
    /\ answer2.done
    /\ probe.url = Some("https://github.com/loot/skyrim.git/")
    /\ probe.branch = Some("master")
    /\ answer.result =
         Some("https://raw.githubusercontent.com/loot/skyrim/v0.23/masterlist.yaml")
    /\ answer2.result = answer.result

-----------------------------------------------------------------------------
(* Properties of the repository URL rewriting.                              *)

\* the ways url reads as https://github.com/<owner>/<repo>, an optional
\* ".git" and an optional "/", letter case of the fixed parts ignored
GitHubForms(url) ==
    LET n == Len(url)
        slashes == {i \in 20..n : SubSeq(url, i, i) = "/"}
    IN  IF n < 22 \/ ToLower(SubSeq(url, 1, 19)) # "https://github.com/"
        THEN {}
        ELSE
          { [owner |-> SubSeq(url, 20, x[1]),
             repo  |-> SubSeq(url, x[1] + 2, x[2])] :
              x \in { y \in {i - 1 : i \in slashes} \X
                              {n - k : k \in {0, 1, 4, 5}} :
                        /\ y[1] >= 20
                        /\ y[2] >= y[1] + 2
                        /\ \A i \in slashes :
                             i = y[1] + 1 \/ i > y[2]
                        /\ ToLower(SubSeq(url, y[2] + 1, n)) \in
                              {"", ".git", "/", ".git/"} } }

RawUrl(owner, repo, branch) ==
    "https://raw.githubusercontent.com/" \o owner \o "/" \o repo \o "/" \o
    branch \o "/masterlist.yaml"

\* C11: for a legacy repository URL (after the VR redirection) that is not
\* a local repository: if it reads as https://github.com/<owner>/<repo>
\* with an optional .git and an optional trailing slash, whatever the
\* letter case, the result and the candidate's masterlist source are
\* https://raw.githubusercontent.com/<owner>/<repo>/<migrated branch>/masterlist.yaml
\* (<repo> without the .git); otherwise there is no result, the GitHub
\* warning is logged and the candidate keeps its catalog default source.
C11_GitHubRewrite ==
    (answer.done /\ ~probe.source.has /\
     ~isLocalPath(answer.url, "masterlist.yaml")) =>
        LET forms == GitHubForms(answer.url)
        IN  IF forms # {}
            THEN \E f \in forms :
                   /\ \A g \in forms : Len(f.repo) <= Len(g.repo)
                   /\ answer.result = Some(RawUrl(f.owner, f.repo, answer.branch))
                   /\ answer.source = RawUrl(f.owner, f.repo, answer.branch)
                   /\ answer.warning = "none"
            ELSE /\ ~answer.result.has
                 /\ answer.warning = "github"
                 /\ answer.source =
                      GetDefaultMasterlistUrl(
                          GetDefaultMasterlistRepositoryName(probe.id))

\* an upper-case GitHub URL with .GIT on a superseded branch was rewritten
C11_Witness ==
    /\ answer.done
    /\ probe.id = "tes4"
    /\ probe.url = Some("HTTPS://GitHub.com/Loot/Oblivion.GIT")
    /\ probe.branch = Some("v0.17")
    /\ answer.source =
         "https://raw.githubusercontent.com/Loot/Oblivion/v0.23/masterlist.yaml"

-----------------------------------------------------------------------------
(* Properties of the explicit source migration.                             *)

OfficialRepositoryNames ==
    {"morrowind", "oblivion", "skyrim", "skyrimse", "skyrimvr", "fallout3",
     "falloutnv", "fallout4", "fallout4vr", "enderal"}

\* the official repositories whose raw URL on a superseded branch is
\* exactly source
LegacyOfficialRepos(source) ==
    {repo \in OfficialRepositoryNames :
       \E branch \in SupersededBranches :
         source = RawUrl("loot", repo, branch)}

\* C12: an explicit masterlist source is replaced by the catalog's current
\* default URL of a repository exactly when it is string-equal to
\* https://raw.githubusercontent.com/loot/<repo>/<branch>/masterlist.yaml
\* for an official repository name and a superseded branch; every other
\* source is returned, and set on the candidate, unmodified.
C12_OfficialUrlMigration ==
    (answer.done /\ probe.source.has) =>
        LET repos == LegacyOfficialRepos(probe.source.v)
            expected == IF repos = {} THEN {probe.source.v}
                        ELSE {GetDefaultMasterlistUrl(repo) : repo \in repos}
        IN  /\ answer.result.has
            /\ answer.result.v \in expected
            /\ answer.source = answer.result.v
            /\ Cardinality(repos) <= 1

\* the Enderal masterlist on v0.18 was moved to the default branch
C12_Witness ==
    /\ answer.done
    /\ probe.source =
         Some("https://raw.githubusercontent.com/loot/enderal/v0.18/masterlist.yaml")
    /\ answer.source = GetDefaultMasterlistUrl("enderal")
    /\ answer.source # probe.source.v

-----------------------------------------------------------------------------
(* Properties of the local repository detection.                            *)

\* location is a filesystem location, not an http(s) URL, that holds
\* masterlist.yaml and .git/HEAD
LocalRepository(location) ==
    /\ ~StartsWith(location, "http://")
    /\ ~StartsWith(location, "https://")
    /\ (location \o "/masterlist.yaml") \in RegularFiles
    /\ (location \o "/.git/HEAD") \in RegularFiles

-----------------------------------------------------------------------------
(* Properties of the run.                                                   *)

\* the steps run() takes before it writes the report, in order
StepsBeforeReport ==
    <<"CreateGameHandle", "LootGameFolder", "GetFile", "LoadLists",
      "LoadCurrentLoadOrderState", "SortPlugins", "WritePluginList">>

\* the report file was opened or written
ReportTouched ==
    \E i \in 1..Len(events) : events[i].call \in {"OpenOutput", "WriteReport"}

\* a step before the report failed
EarlierStepFailed ==
    \E i \in 1..Len(events) :
        /\ ~events[i].ok
        /\ events[i].call \in
             {"getSettings"} \cup
             {StepsBeforeReport[k] : k \in 1..Len(StepsBeforeReport)}

-----------------------------------------------------------------------------
(* ReportBuilder: createPlugins and the helpers it calls, over plugins as   *)
(* the sorter and its metadata database describe them.                      *)

\* JSON values
JArray(items) == [t |-> "array", items |-> items, s |-> "", b |-> FALSE]
JString(str) == [t |-> "string", items |-> <<>>, s |-> str, b |-> FALSE]
JBool(b) == [t |-> "bool", items |-> <<>>, s |-> "", b |-> b]

\* a set that stores empty arrays and strings too
set_KeepsEmpty(o, e, v) == (e :> v) @@ o

\* set(QJsonObject&, const char*, const QJsonValue&): nothing is stored
\* for an empty array or an empty string
set(o, e, v) ==
    IF v.t = "array" /\ v.items = <<>> THEN o
    ELSE IF v.t = "string" /\ v.s = "" THEN o
    ELSE (e :> v) @@ [k \in DOMAIN o \ {e} |-> o[k]]

\* the texts of the messages that have a content in the language, in order
RECURSIVE SelectedTexts(_)
SelectedTexts(list) ==
    IF list = <<>> THEN <<>>
    ELSE (IF Head(list).text.has THEN <<Head(list).text.v>> ELSE <<>>) \o
         SelectedTexts(Tail(list))

\* the names of the list for which "GetPlugin finds it" is found, in order
RECURSIVE NamesByLoaded(_, _, _)
NamesByLoaded(names, loaded, found) ==
    IF names = <<>> THEN <<>>
    ELSE (IF (Head(names) \in loaded) = found THEN <<Head(names)>> ELSE <<>>) \o
         NamesByLoaded(Tail(names), loaded, found)

\* createMessages: the messages that have a content in the language
createMessages(list) == JArray(SelectedTexts(list))

\* createDirty, createClean: one object for each cleaning data
createDirty(data) == JArray(data)

createClean(data) == JArray(data)

\* createIncompatibilities: the files that name a loaded plugin
createIncompatibilities(loaded, data) ==
    JArray(NamesByLoaded(data, loaded, TRUE))

\* createMissingMasters: the masters that are not loaded
createMissingMasters(loaded, plugin) ==
    JArray(NamesByLoaded(plugin.masters, loaded, FALSE))

\* the object createPlugins builds for one plugin
PluginObject(loaded, plugin) ==
    LET o0 == ("name" :> JString(plugin.name))
        md == plugin.metadata
        o1 == IF md.has
              THEN set(set(set(set(o0,
                       "incompatibilities",
                       createIncompatibilities(loaded, md.incompatibilities)),
                       "messages", createMessages(md.messages)),
                       "dirty", createDirty(md.dirty)),
                       "clean", createClean(md.clean))
              ELSE o0
        o2 == set(o1, "missingMasters", createMissingMasters(loaded, plugin))
        o3 == IF plugin.loadsArchive
              THEN ("loadsArchive" :> JBool(TRUE)) @@ o2 ELSE o2
        o4 == IF plugin.isMaster THEN ("isMaster" :> JBool(TRUE)) @@ o3 ELSE o3
    IN  IF plugin.isLightPlugin
        THEN ("isLightMaster" :> JBool(TRUE)) @@ o4 ELSE o4

\* LOOTWorker::createPlugins
RECURSIVE createPlugins(_, _)
createPlugins(loaded, sortedPlugins) ==
    IF sortedPlugins = <<>> THEN <<>>
    ELSE LET o == PluginObject(loaded, Head(sortedPlugins))
         IN  (IF Cardinality(DOMAIN o) > 1 THEN <<o>> ELSE <<>>) \o
             createPlugins(loaded, Tail(sortedPlugins))

NoMetadata ==
    [has |-> FALSE, incompatibilities |-> <<>>, messages |-> <<>>,
     dirty |-> <<>>, clean |-> <<>>]

Metadata(incompatibilities, messages, dirty, clean) ==
    [has |-> TRUE, incompatibilities |-> incompatibilities,
     messages |-> messages, dirty |-> dirty, clean |-> clean]

Plugin(name, metadata, masters, flags) ==
    [name |-> name, metadata |-> metadata, masters |-> masters,
     loadsArchive |-> "archive" \in flags, isMaster |-> "master" \in flags,
     isLightPlugin |-> "light" \in flags]

\* the plugins a load order is drawn from
PluginPool ==
    {Plugin("Bare.esp", NoMetadata, <<>>, {}),
     Plugin("Empty.esp", Metadata(<<>>, <<>>, <<>>, <<>>), <<"Main.esm">>, {}),
     Plugin("Main.esm", NoMetadata, <<>>, {"master"}),
     Plugin("Light.esl", NoMetadata, <<"Main.esm">>, {"light"}),
     Plugin("Archive.esp", Metadata(<<>>, <<>>, <<>>, <<>>), <<>>, {"archive"}),
     Plugin("Orphan.esp", NoMetadata, <<"Main.esm", "Gone.esm">>, {}),
     Plugin("Rival.esp", Metadata(<<"Bare.esp", "Gone.esp">>, <<>>, <<>>, <<>>),
            <<>>, {}),
     Plugin("Foreign.esp",
            Metadata(<<"Gone.esp">>, <<[type |-> "warn", text |-> NoStr]>>,
                     <<>>, <<>>), <<>>, {}),
     Plugin("Noted.esp",
            Metadata(<<>>, <<[type |-> "say", text |-> Some("note")],
                             [type |-> "warn", text |-> NoStr]>>, <<>>, <<>>),
            <<>>, {}),
     Plugin("Dirty.esp", Metadata(<<>>, <<>>, <<"crc1">>, <<>>), <<>>, {}),
     Plugin("Clean.esp", Metadata(<<>>, <<>>, <<>>, <<"crc2">>), <<>>,
            {"archive", "master"})}

\* the load orders the sorter returns: no plugin twice
SortedPluginLists ==
    {l \in SeqsUpTo(PluginPool, MaxPlugins) :
       \A i, j \in 1..Len(l) : i # j => l[i].name # l[j].name}

InitReport ==
    /\ probe \in [fn : {"createPlugins"}, sortedPlugins : SortedPluginLists]
    /\ answer = NoAnswer
    /\ answer2 = NoAnswer
    /\ pc = "report"
    /\ m_GameId = "tes5"
    /\ settingsFile = "missing"
    /\ games = [kind |-> "absent", elems |-> <<>>]
    /\ idx = 0
    /\ m_GameSettings = DefaultGameSettings
    /\ accepted = 0
    /\ evaluated = 0
    /\ SettersDone("tes5")

\* createJsonReport calls createPlugins on the sorted plugins, all of which
\* the game handle has loaded
CreatePlugins ==
    /\ pc = "report"
    /\ probe.fn = "createPlugins"
    /\ answer' = [done  |-> TRUE,
                  value |-> createPlugins(
                                {probe.sortedPlugins[i].name :
                                    i \in 1..Len(probe.sortedPlugins)},
                                probe.sortedPlugins)]
    /\ pc' = "reported"
    /\ UNCHANGED <<m_GameId, settingsFile, games, idx, m_GameSettings, accepted,
                   evaluated, probe, answer2, runVars>>

NextReport == CreatePlugins

SpecReport == InitReport /\ [][NextReport]_vars

-----------------------------------------------------------------------------
(* Properties of the report.                                                *)

\* the names GetPlugin finds for the probed load order
LoadedNames ==
    {probe.sortedPlugins[i].name : i \in 1..Len(probe.sortedPlugins)}

\* after filtering, the plugin carries a field besides its name
CarriesField(p) ==
    \/ /\ p.metadata.has
       /\ \/ \E i \in 1..Len(p.metadata.incompatibilities) :
                p.metadata.incompatibilities[i] \in LoadedNames
          \/ \E i \in 1..Len(p.metadata.messages) :
                p.metadata.messages[i].text.has
          \/ p.metadata.dirty # <<>>
          \/ p.metadata.clean # <<>>
    \/ \E i \in 1..Len(p.masters) : p.masters[i] \notin LoadedNames
    \/ p.loadsArchive
    \/ p.isMaster
    \/ p.isLightPlugin

\* C16: the plugins array of the report holds a sorted plugin if and only
\* if, after filtering, the plugin carries at least one field besides its
\* name; the plugins it holds are in the sorter's order.
C16_PluginsArray ==
    answer.done =>
        LET expected == SelectSeq(probe.sortedPlugins, CarriesField)
        IN  /\ Len(answer.value) = Len(expected)
            /\ \A i \in 1..Len(expected) :
                 answer.value[i]["name"] = JString(expected[i].name)

\* of a bare plugin and a master, in this order, only the master is in the
\* array
C16_Witness ==
    /\ answer.done
    /\ Len(probe.sortedPlugins) = 2
    /\ probe.sortedPlugins[1].name = "Empty.esp"
    /\ probe.sortedPlugins[2].name = "Main.esm"
    /\ Len(answer.value) = 1
    /\ DOMAIN answer.value[1] = {"name", "isMaster"}

-----------------------------------------------------------------------------
(* Properties of the game selection.                                        *)

\* the thirteen game names and the identity each stands for
GameNameTable ==
    {<<"morrowind", "tes3">>, <<"oblivion", "tes4">>, <<"nehrim", "nehrim">>,
     <<"skyrim", "tes5">>, <<"enderal", "enderal">>, <<"skyrimse", "tes5se">>,
     <<"enderalse", "enderalse">>, <<"skyrimvr", "tes5vr">>,
     <<"fallout3", "fo3">>, <<"falloutnv", "fonv">>, <<"fallout4", "fo4">>,
     <<"fallout4vr", "fo4vr">>, <<"starfield", "starfield">>}

\* the entries of the table the requested name matches, letter case ignored
MatchingGames ==
    IF arguments.game.has
    THEN {e \in GameNameTable : ToLower(e[1]) = ToLower(arguments.game.v)}
    ELSE {}

\* C17: the step of main() that selects the game sets the identity to the
\* one of the thirteen table entries the requested name matches without
\* regard to letter case, and goes on; for a name that matches none it
\* fails (main ends with 1) and leaves the identity and the game name as
\* they were.
C17_SetGame ==
    [][ pc = "main" =>
          IF MatchingGames # {}
          THEN /\ \E e \in MatchingGames : m_GameId' = e[2]
               /\ Cardinality(MatchingGames) = 1
               /\ status' = "running"
               /\ pc' = "setters"
          ELSE /\ status' = "1"
               /\ pc' = "exit"
               /\ UNCHANGED <<m_GameId, m_GameName>> ]_vars

\* --game NEHRIM selected the Nehrim identity
C17_Witness ==
    /\ pc = "setters"
    /\ arguments.game = Some("NEHRIM")
    /\ m_GameId = "nehrim"
    /\ status = "running"

-----------------------------------------------------------------------------
(* The candidate on its own: the loop body of getSettings up to             *)
(* GameSettings newSettings(gameId, folder.value()), over tables drawn by   *)
(* their gameId, type and folder keys.                                      *)

CandidateTables ==
    { Field("gameId", gameId) @@ Field("type", type) @@ Field("folder", folder) :
        gameId \in {Absent, Present(Str("SkyrimSE")),
                    Present(Str("Skyrim Special Edition")),
                    Present(Str("Skyrim VR")), Present(Str("Fallout4")),
                    Present(Str("skyrimse"))},
        type \in {Absent, Present(Str("SkyrimSE")),
                  Present(Str("Skyrim Special Edition")),
                  Present(Str("Fallout4")), Present(Integer(5))},
        folder \in {Absent, Present(Str("SkyrimSE")),
                    Present(Str("Skyrim Special Edition")),
                    Present(Str("skyrimse")), Present(Str("Fallout4"))} }

InitCandidate ==
    /\ probe \in [fn : {"candidate"}, table : CandidateTables]
    /\ answer = NoAnswer
    /\ answer2 = NoAnswer
    /\ pc = "candidate"
    /\ m_GameId = "tes5"
    /\ settingsFile = "missing"
    /\ games = [kind |-> "absent", elems |-> <<>>]
    /\ idx = 0
    /\ m_GameSettings = DefaultGameSettings
    /\ accepted = 0
    /\ evaluated = 0
    /\ SettersDone("tes5")

\* the loop body builds newSettings for the table, or throws before it
BuildCandidate ==
    /\ pc = "candidate"
    /\ answer' = [done     |-> TRUE,
                  ok       |-> Candidate(probe.table).ok,
                  settings |-> Candidate(probe.table).settings]
    /\ pc' = "built"
    /\ UNCHANGED <<m_GameId, settingsFile, games, idx, m_GameSettings, accepted,
                   evaluated, probe, answer2, runVars>>

NextCandidate == BuildCandidate

SpecCandidate == InitCandidate /\ [][NextCandidate]_vars

-----------------------------------------------------------------------------
(* Properties of the candidate.                                             *)

\* C18: a candidate built for an entry whose declared type string is the
\* legacy tag "SkyrimSE" and whose folder is "SkyrimSE" has the folder name
\* "Skyrim Special Edition"; the candidate of every other entry has the
\* declared folder as its folder name.
C18_FolderRewrite ==
    (answer.done /\ answer.ok) =>
        answer.settings.folderName =
            IF probe.table["gameId"].s = "SkyrimSE" /\
               probe.table["folder"].s = "SkyrimSE"
            THEN "Skyrim Special Edition"
            ELSE probe.table["folder"].s

-----------------------------------------------------------------------------
(* Properties of the resolved profile.                                      *)

\* C19: once run() has initialised the profile, and so after getSettings
\* whatever the configured entries are, the engine-type class of the
\* profile is the engine-type class of the requested identity, also when
\* the accepted entry was classified as another identity of that class.
C19_ProfileTypeClass ==
    pc \in {"scan", "settingsDone", "failed", "crashed"} =>
        m_GameSettings.type = GetGameType(m_GameId)

\* an entry classified as Oblivion was accepted for a Nehrim request
C19_Witness ==
    /\ pc = "settingsDone"
    /\ m_GameId = "nehrim"
    /\ accepted > 0
    /\ m_GameSettings.id = "tes4"
    /\ m_GameSettings.type = "tes4"

\* C20: the game path of the profile handed to the sorter's construction
\* call is the path given with --gamePath, whatever settings.toml holds: a
\* path set by the accepted entry does not reach the call.
C20_CommandLinePathWins ==
    gameHandle.called =>
        /\ arguments.gamePath.has
        /\ gameHandle.gamePath = arguments.gamePath.v
        /\ m_GameSettings.gamePath = arguments.gamePath.v

\* an entry with a path of its own was accepted, and the sorter was
\* constructed with the path of the command line
C20_Witness ==
    /\ gameHandle.called
    /\ accepted > 0
    /\ "path" \in DOMAIN games.elems[accepted].fields
    /\ games.elems[accepted].fields["path"] = Str("/games/oblivion")
    /\ arguments.gamePath = Some(CommandLinePath)
    /\ gameHandle.gamePath = CommandLinePath

\* C21: in every run the list loading comes right after an attempt to
\* download the masterlist from the profile's masterlist source, and a run
\* that is past the download step has made that attempt, whatever
\* m_UpdateMasterlist is: with --skipUpdateMasterlist the masterlist is
\* fetched as without it.
C21_AlwaysFetches ==
    /\ \A i \in 1..Len(events) :
         events[i].call = "LoadLists" =>
            /\ i > 1
            /\ events[i - 1] = Event("GetFile", TRUE,
                                     m_GameSettings.masterlistSource)
    /\ pc \in {"loadLists", "loadOrder", "sort", "rewrite", "report"} =>
         \E i \in 1..Len(events) : events[i].call = "GetFile"

\* a run started with --skipUpdateMasterlist downloaded the masterlist and
\* loaded the lists
C21_Witness ==
    /\ arguments.skipUpdateMasterlist
    /\ ~m_UpdateMasterlist
    /\ Len(events) >= 4
    /\ events[3].call = "GetFile"
    /\ events[4] = Event("LoadLists", TRUE, "")

====
